---------------------------- MODULE Spec2Model ----------------------------
(***************************************************************************)
(* Model of the message-to-command dispatch of senechal_discord.py:        *)
(* SenechalDiscordClient.on_message and handle_api_call.                   *)
(*                                                                         *)
(* Text that the code inspects character by character (message content,    *)
(* command prefixes, args template values, dates) is a sequence of         *)
(* one-character strings.  Text that the code only concatenates (reply     *)
(* parts, urls, keys) is a TLA+ string.                                    *)
(*                                                                         *)
(* discord.py runs every on_message event as its own task on one event     *)
(* loop.  A handler runs without interruption up to `await channel.send`   *)
(* (requests.post is a blocking call, it does not yield to the loop), so   *)
(* one action runs the handler up to that await and a second one           *)
(* completes the send.                                                     *)
(***************************************************************************)
EXTENDS Integers, Sequences, FiniteSets, TLC

VARIABLES config, json_error_is_request_exception, inv

vars == <<config, json_error_is_request_exception, inv>>

-----------------------------------------------------------------------------
(* Bounds of the model *)

\* a message carries 0..MaxAttachments attachments
MaxAttachments == 2
\* a response's data mapping has 0..MaxData entries
MaxData == 2

\* the handler tasks that may be in flight at the same time
Handlers == {"h1", "h2"}

-----------------------------------------------------------------------------
(* Character-level text *)

Digits == {"0", "1", "2", "3", "4", "5", "6", "7", "8", "9"}

\* the characters str.strip() removes
Whitespace == {" ", "\t", "\n"}

S_log == <<"!", "l", "o", "g">>
S_l == <<"!", "l">>
S_row == <<"!", "r", "o", "w">>
S_note == <<"!", "n">>
S_fixed == <<"f", "i", "x">>
S_date == <<"2", "0", "2", "4", "-", "0", "3", "-", "0", "5">>
\* passes the pattern although it is no calendar date
S_baddate == <<"9", "9", "9", "9", "-", "9", "9", "-", "9", "9">>
S_today == <<"2", "0", "2", "6", "-", "1", "1", "-", "0", "6">>
S_tomorrow == <<"2", "0", "2", "6", "-", "1", "1", "-", "0", "7">>

\* a prefix test that rejects the empty prefix
StartsWithNonEmpty(s, p) == Len(p) > 0 /\ Len(p) <= Len(s) /\ SubSeq(s, 1, Len(p)) = p
\* str.startswith(prefix): prefix is a literal prefix at position 0
StartsWith(s, p) == Len(p) <= Len(s) /\ SubSeq(s, 1, Len(p)) = p

\* s[n:]
DropFirst(s, n) == SubSeq(s, n + 1, Len(s))

\* a strip that leaves trailing whitespace
StripLeftOnly(s) ==
    LET keep == {i \in 1..Len(s) : s[i] \notin Whitespace}
    IN  IF keep = {} THEN <<>>
        ELSE SubSeq(s, CHOOSE i \in keep : \A j \in keep : i <= j, Len(s))
\* str.strip(): drop leading and trailing whitespace, keep inner whitespace
Strip(s) ==
    LET keep == {i \in 1..Len(s) : s[i] \notin Whitespace}
    IN  IF keep = {} THEN <<>>
        ELSE SubSeq(s, CHOOSE i \in keep : \A j \in keep : i <= j,
                       CHOOSE i \in keep : \A j \in keep : i >= j)

\* the pattern \d{4}-\d{2}-\d{2} matches s at position i
DateAt(s, i) ==
    /\ i + 9 <= Len(s)
    /\ \A k \in {0, 1, 2, 3, 5, 6, 8, 9} : s[i + k] \in Digits
    /\ s[i + 4] = "-"
    /\ s[i + 7] = "-"

\* re.search(pattern, s) finds a match
HasDate(s) == \E i \in 1..Len(s) : DateAt(s, i)

\* a search that returns the rightmost match
LastDate(s) ==
    LET i == CHOOSE i \in 1..Len(s) : DateAt(s, i) /\ \A j \in 1..Len(s) : DateAt(s, j) => j <= i
    IN  SubSeq(s, i, i + 9)
\* re.search(pattern, s).group(): the leftmost match
FirstDate(s) ==
    LET i == CHOOSE i \in 1..Len(s) : DateAt(s, i) /\ \A j \in 1..Len(s) : DateAt(s, j) => i <= j
    IN  SubSeq(s, i, i + 9)

\* datetime.datetime.now().strftime("%Y-%m-%d"): the dates the clock may give
Dates == {S_today, S_tomorrow}

-----------------------------------------------------------------------------
(* The configuration tree, as Config.load builds it *)

NoApiCall == [url |-> "", has_headers |-> FALSE, headers |-> <<>>,
              has_args |-> FALSE, args |-> <<>>]

\* api_call with url and args; headers and args are optional in the YAML
ApiCall(url, has_headers, headers, has_args, args) ==
    [url |-> url, has_headers |-> has_headers, headers |-> headers,
     has_args |-> has_args, args |-> args]

\* one attribute of a channel namespace: the id, a command, or anything else
IdAttr(n) == [name |-> "id", value |-> n, has_prefix |-> FALSE,
              cmd_prefix |-> <<>>, api_call |-> NoApiCall]
OtherAttr(name) == [name |-> name, value |-> 0, has_prefix |-> FALSE,
                    cmd_prefix |-> <<>>, api_call |-> NoApiCall]
Command(name, prefix, api_call) ==
    [name |-> name, value |-> 0, has_prefix |-> TRUE,
     cmd_prefix |-> prefix, api_call |-> api_call]

Channel(name, attrs) == [name |-> name, attrs |-> attrs]

AuthHeaders == << <<"Authorization", "key">> >>

\* "!log" declared before "!l"; the image command with headers and args
ChanGeneral ==
    Channel("general",
      << IdAttr(42),
         Command("log", S_log,
                 ApiCall("http://api/log", FALSE, <<>>, TRUE,
                         << <<"user", <<>> >>, <<"note", S_fixed>> >>)),
         Command("short", S_l,
                 ApiCall("http://api/short", TRUE, AuthHeaders, TRUE,
                         << <<"text", <<>> >> >>)),
         Command("rowing", S_row,
                 ApiCall("http://api/rowing", TRUE, AuthHeaders, TRUE,
                         << <<"text", <<>> >> >>)) >>)

\* the id declared after a command; an attribute that is no command; headers
\* configured as an empty mapping; a template without placeholder; api_calls
\* without args
ChanGym ==
    Channel("gym",
      << Command("rowing", S_row,
                 ApiCall("http://api/rowing2", FALSE, <<>>, FALSE, <<>>)),
         IdAttr(7),
         OtherAttr("description"),
         Command("note", S_note,
                 ApiCall("http://api/note", TRUE, <<>>, TRUE,
                         << <<"note", S_fixed>> >>)),
         Command("bare", S_log,
                 ApiCall("http://api/bare", FALSE, <<>>, FALSE, <<>>)) >>)

\* "!l" declared before "!log"; a template with the placeholder last; a
\* command-type other than "rowing" that receives attachments
ChanGeneralB ==
    Channel("general",
      << IdAttr(42),
         Command("short", S_l,
                 ApiCall("http://api/short", FALSE, <<>>, TRUE,
                         << <<"note", S_fixed>>, <<"text", <<>> >> >>)),
         Command("log", S_log,
                 ApiCall("http://api/log", TRUE, AuthHeaders, TRUE,
                         << <<"user", <<>> >> >>)),
         Command("erg", S_row,
                 ApiCall("http://api/erg", TRUE, AuthHeaders, TRUE,
                         << <<"a", <<>> >>, <<"b", <<>> >> >>)) >>)

\* a command with the empty prefix, declared before another command
ChanCatchAll ==
    Channel("inbox",
      << IdAttr(13),
         Command("any", <<>>,
                 ApiCall("http://api/any", FALSE, <<>>, TRUE,
                         << <<"text", <<>> >> >>)),
         Command("log", S_log,
                 ApiCall("http://api/log13", FALSE, <<>>, TRUE,
                         << <<"user", <<>> >> >>)) >>)

\* a second channel entry with the id of "general"
ChanGeneralTwin ==
    Channel("general_twin",
      << IdAttr(42),
         Command("note", S_note,
                 ApiCall("http://api/twin_note", FALSE, <<>>, TRUE,
                         << <<"note", <<>> >> >>)),
         Command("log", S_log,
                 ApiCall("http://api/twin_log", FALSE, <<>>, TRUE,
                         << <<"user", <<>> >> >>)) >>)

Config1 == [channels |-> <<ChanGeneral, ChanGym>>]
Config2 == [channels |-> <<ChanGeneralB, ChanCatchAll, ChanGeneralTwin>>]

Configs == {Config1, Config2}

\* chan_info.id
ChanId(chan) ==
    LET i == CHOOSE i \in 1..Len(chan.attrs) : chan.attrs[i].name = "id"
    IN  chan.attrs[i].value

-----------------------------------------------------------------------------
(* Inbound messages *)

BotUser == "bot"

U_att1 == <<"u", "1">>
U_att2 == <<"u", "2">>
U_att3 == <<"u", "3">>
AttachmentUrls == <<U_att1, U_att2, U_att3>>

\* the attachment lists of 1..MaxAttachments urls
Attachments(n) == SubSeq(AttachmentUrls, 1, n)

Msg(author, channel, content, attachments) ==
    [author |-> author, channel |-> channel, content |-> content,
     attachments |-> attachments]

\* "!log  hi ", "!log", "!l x", "!LOG", " !log", "hi"
T_log_hi == S_log \o <<" ", " ", "h", "i", " ">>
T_l_x == S_l \o <<" ", "x">>
T_LOG == <<"!", "L", "O", "G">>
T_sp_log == <<" ">> \o S_log
T_hi == <<"h", "i">>
\* "!row", "!row 2024-03-05 ok", "!row 9999-99-99 2024-03-05", "!n a b"
T_row_date == S_row \o <<" ">> \o S_date \o <<" ", "o", "k">>
T_row_dates == S_row \o <<" ">> \o S_baddate \o <<" ">> \o S_date
T_n == S_note \o <<" ", "a", " ", "b">>

Messages ==
    \* text messages in the configured channels
    {Msg("user", 42, t, <<>>) :
        t \in {T_log_hi, S_log, T_l_x, T_LOG, T_sp_log, T_hi, S_row, T_n}}
    \cup {Msg("user", 7, t, <<>>) : t \in {T_log_hi, S_row, T_n, T_l_x}}
    \* messages with attachments
    \cup {Msg("user", 42, t, Attachments(n)) :
            t \in {S_row, T_row_date, T_row_dates}, n \in 1..MaxAttachments}
    \cup {Msg("user", 7, S_row, Attachments(1)), Msg("user", 42, T_l_x, Attachments(1))}
    \* a channel that is not configured
    \cup {Msg("user", 99, T_log_hi, <<>>), Msg("user", 99, S_row, Attachments(1))}
    \* the bot's own messages
    \cup {Msg(BotUser, 42, T_log_hi, <<>>), Msg(BotUser, 42, T_row_date, Attachments(1)),
          Msg(BotUser, 99, T_hi, <<>>), Msg(BotUser, 13, T_hi, <<>>)}
    \* messages in the channel of the empty prefix, one without text
    \cup {Msg("user", 13, T_log_hi, <<>>), Msg("user", 13, T_hi, <<>>),
          Msg("user", 13, <<>>, Attachments(1))}

\* the dates the clock may give while m is handled (only a message with
\* attachments can make the handler read the clock to any effect)
DatesFor(m) == IF m.attachments = <<>> THEN {S_today} ELSE Dates

NoMsg == Msg("", 0, <<>>, <<>>)

-----------------------------------------------------------------------------
(* What the outbound call meets: the transport, the response body and the   *)
(* write of api_response.json                                               *)

JStr(s) == [t |-> "str", s |-> s]
JNull == [t |-> "null", s |-> ""]

\* str(value) as an f-string formats it
PyStr(v) == IF v.t = "null" THEN "None" ELSE v.s

\* a `data` value: a mapping (entries in order) or something else
DataMap(entries) == [t |-> "map", entries |-> entries, n |-> Len(entries)]
DataList(n) == [t |-> "list", entries |-> <<>>, n |-> n]
DataStr(n) == [t |-> "str", entries |-> <<>>, n |-> n]
DataNull == [t |-> "null", entries |-> <<>>, n |-> 0]

\* bool(data): empty containers, empty strings and None are false
Truthy(d) == d.n > 0

DataKeys == <<"a", "b", "c">>
DataVals == <<JStr("1"), JStr("2"), JNull>>

\* the mapping with the first n keys, in order
DataOf(n) == DataMap([i \in 1..n |-> <<DataKeys[i], DataVals[i]>>])
\* the same entries in the opposite order
DataRev(n) == DataMap([i \in 1..n |-> <<DataKeys[n + 1 - i], DataVals[n + 1 - i]>>])

JObject(has_status, status, has_message, message, has_data, data) ==
    [type |-> "object", has_status |-> has_status, status |-> status,
     has_message |-> has_message, message |-> message,
     has_data |-> has_data, data |-> data]
\* a JSON value that is no object: a list, a string, a number, null
JOther(type) ==
    [type |-> type, has_status |-> FALSE, status |-> JNull,
     has_message |-> FALSE, message |-> JNull,
     has_data |-> FALSE, data |-> DataNull]

Env(http, parse, body, write_ok) ==
    [http |-> http, parse |-> parse, body |-> body, write_ok |-> write_ok]

NoEnv == Env("none", "none", JOther("null"), TRUE)

OkBodies ==
    {JObject(TRUE, JStr("OK"), TRUE, JStr("done"), TRUE, d) :
        d \in {DataOf(n) : n \in 0..MaxData} \cup {DataRev(MaxData)}
              \cup {DataNull, DataList(0), DataList(1), DataStr(1)}}
    \cup {JObject(TRUE, JStr("OK"), TRUE, JStr("done"), FALSE, DataNull),
          JObject(FALSE, JNull, FALSE, JNull, FALSE, DataNull),
          JObject(TRUE, JNull, FALSE, JNull, TRUE, DataOf(1))}

Envs ==
    {Env("connection_error", "none", JOther("null"), TRUE),
     Env("timeout", "none", JOther("null"), TRUE),
     Env("ok", "not_json", JOther("null"), TRUE),
     Env("ok", "json", JOther("list"), TRUE),
     Env("ok", "json", JOther("null"), TRUE),
     Env("ok", "json", JObject(TRUE, JStr("OK"), TRUE, JStr("done"), TRUE, DataOf(1)), FALSE)}
    \cup {Env("ok", "json", b, TRUE) : b \in OkBodies}

-----------------------------------------------------------------------------
(* on_message: resolving the channel and the command *)

\* a resolver that keeps the last channel with the id
LastChannel(cfg, m) ==
    LET hits == {i \in 1..Len(cfg.channels) : ChanId(cfg.channels[i]) = m.channel}
    IN  IF hits = {} THEN 0 ELSE CHOOSE i \in hits : \A j \in hits : i >= j
\* the first channel, in declaration order, whose id is the message's channel
\* id; 0 when there is none
FindChannel(cfg, m) ==
    LET hits == {i \in 1..Len(cfg.channels) : ChanId(cfg.channels[i]) = m.channel}
    IN  IF hits = {} THEN 0 ELSE CHOOSE i \in hits : \A j \in hits : i <= j

\* a match that accepts the prefix anywhere in the text
MatchesAnywhere(attr, m) ==
    /\ attr.name # "id"
    /\ attr.has_prefix
    /\ \E k \in 0..Len(m.content) : StartsWith(DropFirst(m.content, k), attr.cmd_prefix)
\* the attribute is a command and the message text starts with its prefix
Matches(attr, m) ==
    /\ attr.name # "id"
    /\ attr.has_prefix
    /\ StartsWith(m.content, attr.cmd_prefix)

\* a resolver that prefers the longest matching prefix
LongestCommand(chan, m) ==
    LET hits == {i \in 1..Len(chan.attrs) : Matches(chan.attrs[i], m)}
    IN  IF hits = {} THEN 0
        ELSE CHOOSE i \in hits : \A j \in hits :
               Len(chan.attrs[i].cmd_prefix) >= Len(chan.attrs[j].cmd_prefix)
\* the first attribute of the channel, in declaration order, that matches;
\* 0 when there is none
FindCommand(chan, m) ==
    LET hits == {i \in 1..Len(chan.attrs) : Matches(chan.attrs[i], m)}
    IN  IF hits = {} THEN 0 ELSE CHOOSE i \in hits : \A j \in hits : i <= j

-----------------------------------------------------------------------------
(* on_message: building the arguments *)

\* an image branch taken for every command that receives an attachment
AttachmentStyleByAttachmentOnly(cmd, m) == m.attachments # <<>>
\* the image branch is taken
IsAttachmentStyle(cmd, m) == cmd.name = "rowing" /\ m.attachments # <<>>

\* the date of the image branch
WorkoutDate(m, today) == IF HasDate(m.content) THEN FirstDate(m.content) ELSE today

\* args = {"image_url": ..., "workout_date": ...}
AttachmentArgs(m, today) ==
    << <<"image_url", m.attachments[1]>>, <<"workout_date", WorkoutDate(m, today)>> >>

\* message.content[len(cmd_prefix):].strip()
Content(cmd, m) == Strip(DropFirst(m.content, Len(cmd.cmd_prefix)))

\* a substitution that does not strip the text
TextArgsUnstripped(cmd, m) ==
    LET args == cmd.api_call.args
        empty == {i \in 1..Len(args) : args[i][2] = <<>>}
        first == CHOOSE i \in empty : \A j \in empty : i <= j
    IN  IF empty = {} THEN args
        ELSE [args EXCEPT ![first] = <<args[first][1], DropFirst(m.content, Len(cmd.cmd_prefix))>>]
\* the copy of the template with the first empty-string value replaced
TextArgs(cmd, m) ==
    LET args == cmd.api_call.args
        empty == {i \in 1..Len(args) : args[i][2] = <<>>}
        first == CHOOSE i \in empty : \A j \in empty : i <= j
    IN  IF empty = {} THEN args
        ELSE [args EXCEPT ![first] = <<args[first][1], Content(cmd, m)>>]

\* vars(cmd_config.api_call.headers) if hasattr(...) else {}
Headers(cmd) == IF cmd.api_call.has_headers THEN cmd.api_call.headers ELSE <<>>

-----------------------------------------------------------------------------
(* handle_api_call *)

TimeoutWithHeaders == 120
TimeoutDefault == 10

\* a post with the two timeouts exchanged
PostTimeoutSwapped(url, args, headers) ==
    [url |-> url, json |-> args,
     with_headers |-> headers # <<>>,
     headers |-> IF headers # <<>> THEN headers ELSE <<>>,
     timeout |-> IF headers # <<>> THEN TimeoutDefault ELSE TimeoutWithHeaders]
\* requests.post(url, json=args, headers=headers, timeout=120) if headers,
\* else requests.post(url, json=args, timeout=10)
Post(url, args, headers) ==
    [url |-> url, json |-> args,
     with_headers |-> headers # <<>>,
     headers |-> IF headers # <<>> THEN headers ELSE <<>>,
     timeout |-> IF headers # <<>> THEN TimeoutWithHeaders ELSE TimeoutDefault]

\* the exception the try block raises before the send, "none" when it
\* reaches the send: the post, resp.json(), the write of api_response.json,
\* resp_json.get and data.items() in this order
Raised(env) ==
    IF env.http = "connection_error" THEN "ConnectionError"
    ELSE IF env.http = "timeout" THEN "Timeout"
    ELSE IF env.parse = "not_json" THEN "JSONDecodeError"
    ELSE IF ~env.write_ok THEN "OSError"
    ELSE IF env.body.type # "object" THEN "AttributeError"
    ELSE IF env.body.has_data /\ Truthy(env.body.data) /\ env.body.data.t # "map"
         THEN "AttributeError"
    ELSE "none"

\* str(exception)
Detail(exc) ==
    CASE exc = "ConnectionError" -> "Connection refused"
      [] exc = "Timeout" -> "Read timed out"
      [] exc = "JSONDecodeError" -> "Expecting value"
      [] OTHER -> exc

\* the class hierarchy the except clauses test.  The error resp.json()
\* raises is a ValueError; from requests 2.27 on it is a RequestException too.
IsRequestException(exc, json_is_request_exc) ==
    \/ exc \in {"ConnectionError", "Timeout"}
    \/ exc = "JSONDecodeError" /\ json_is_request_exc
IsValueError(exc) == exc = "JSONDecodeError"
IsKeyOrTypeError(exc) == exc \in {"KeyError", "TypeError"}

\* U+274C, which a TLA+ string cannot hold
CrossMark == "(x)"

\* the except clauses, in order: the reply of the first clause that catches
\* the exception, "" when none does and the exception leaves the function
ExceptReply(exc, json_is_request_exc) ==
    IF IsRequestException(exc, json_is_request_exc)
    THEN CrossMark \o " Network error calling API: " \o Detail(exc)
    ELSE IF IsValueError(exc)
    THEN CrossMark \o " Invalid response from API: " \o Detail(exc)
    ELSE IF IsKeyOrTypeError(exc)
    THEN CrossMark \o " Error processing API response: " \o Detail(exc)
    ELSE ""

\* "\n".join(f"- **{k}:** {v}" for k, v in data.items())
RECURSIVE JoinData(_)
JoinData(entries) ==
    IF entries = <<>> THEN ""
    ELSE "- **" \o entries[1][1] \o ":** " \o PyStr(entries[1][2])
         \o (IF Len(entries) = 1 THEN "" ELSE "\n" \o JoinData(Tail(entries)))

\* resp_json.get("status", "Error"), resp_json.get("message", "No message provided")
Status(body) == IF body.has_status THEN body.status ELSE JStr("Error")
Message(body) == IF body.has_message THEN body.message ELSE JStr("No message provided")

\* a reply that leaves the data lines out
SuccessReplyNoData(body) ==
    "**" \o PyStr(Status(body)) \o ":** " \o PyStr(Message(body))
\* reply = f"**{status}:** {message}", then the data lines if data
SuccessReply(body) ==
    "**" \o PyStr(Status(body)) \o ":** " \o PyStr(Message(body))
    \o (IF body.has_data /\ Truthy(body.data)
        THEN "\n" \o JoinData(body.data.entries) ELSE "")

-----------------------------------------------------------------------------
(* The handler tasks *)

\* a task that handles no message
Idle ==
    [pc |-> "idle", msg |-> NoMsg, chan |-> 0, cmd |-> 0, style |-> "none",
     args |-> <<>>, posts |-> <<>>, env |-> NoEnv, channel |-> 0,
     reply |-> "", replies |-> <<>>, error |-> "none"]

\* a call that posts a second time when the first attempt fails
HandleApiCallRetry(t, url, args, channel, headers, env, json_is_request_exc) ==
    LET exc == Raised(env)
        posted == [t EXCEPT !.posts = Append(@, Post(url, args, headers)),
                            !.env = env, !.channel = channel]
        again == [posted EXCEPT !.posts = Append(@, Post(url, args, headers))]
    IN  IF exc = "none"
        THEN [posted EXCEPT !.reply = SuccessReply(env.body), !.pc = "sending"]
        ELSE IF ExceptReply(exc, json_is_request_exc) # ""
        THEN [again EXCEPT !.reply = ExceptReply(exc, json_is_request_exc),
                           !.pc = "sending"]
        ELSE [again EXCEPT !.error = exc, !.pc = "done"]
\* a call that yields to the event loop while the post is in flight
HandleApiCallAwaitPost(t, url, args, channel, headers, env, json_is_request_exc) ==
    [t EXCEPT !.posts = Append(@, Post(url, args, headers)),
              !.channel = channel, !.pc = "sending"]
\* handle_api_call up to its first await: the post, the parse, the write, the
\* formatting.  t is the task at the call.
HandleApiCall(t, url, args, channel, headers, env, json_is_request_exc) ==
    LET exc == Raised(env)
        posted == [t EXCEPT !.posts = Append(@, Post(url, args, headers)),
                            !.env = env, !.channel = channel]
    IN  IF exc = "none"
        THEN [posted EXCEPT !.reply = SuccessReply(env.body), !.pc = "sending"]
        ELSE IF ExceptReply(exc, json_is_request_exc) # ""
        THEN [posted EXCEPT !.reply = ExceptReply(exc, json_is_request_exc),
                            !.pc = "sending"]
        ELSE [posted EXCEPT !.error = exc, !.pc = "done"]

\* the body of the command loop for the command that matched
Dispatch(t, cmd, m, env, today, json_is_request_exc) ==
    IF IsAttachmentStyle(cmd, m)
    THEN HandleApiCall([t EXCEPT !.style = "attachment", !.args = AttachmentArgs(m, today)],
                       cmd.api_call.url, AttachmentArgs(m, today), m.channel,
                       Headers(cmd), env, json_is_request_exc)
    ELSE IF ~cmd.api_call.has_args
    \* vars(cmd_config.api_call.args) raises, outside any try
    THEN [t EXCEPT !.style = "text", !.error = "AttributeError", !.pc = "done"]
    ELSE HandleApiCall([t EXCEPT !.style = "text", !.args = TextArgs(cmd, m)],
                       cmd.api_call.url, TextArgs(cmd, m), m.channel,
                       Headers(cmd), env, json_is_request_exc)

\* an author test that lets the bot's own messages through
IsSelfNever(m) == FALSE
\* the author test of on_message
IsSelf(m) == m.author = BotUser

\* on_message up to its first await or to its end
RunOnMessage(cfg, m, env, today, json_is_request_exc) ==
    LET t0 == [Idle EXCEPT !.msg = m, !.pc = "done"]
        c == FindChannel(cfg, m)
        k == FindCommand(cfg.channels[c], m)
    IN  IF IsSelf(m) THEN t0
        ELSE IF c = 0 THEN t0
        ELSE IF k = 0 THEN [t0 EXCEPT !.chan = c]
        ELSE Dispatch([t0 EXCEPT !.chan = c, !.cmd = k],
                      cfg.channels[c].attrs[k], m, env, today, json_is_request_exc)

-----------------------------------------------------------------------------
(* The state machine *)

Init ==
    /\ config \in Configs
    /\ json_error_is_request_exception \in BOOLEAN
    /\ inv = [h \in Handlers |-> Idle]

\* a build that writes the text into the template itself
TemplateAfterNoCopy(cmd, m) == TextArgs(cmd, m)
\* the args template of the command after a text-style build: the build
\* writes into a copy, vars(cmd_config.api_call.args).copy(), so the
\* template is what it was
TemplateAfter(cmd, m) == cmd.api_call.args

\* the configuration tree after on_message has handled m
ConfigAfter(cfg, m) ==
    LET c == FindChannel(cfg, m)
        k == FindCommand(cfg.channels[c], m)
        cmd == cfg.channels[c].attrs[k]
    IN  IF IsSelf(m) \/ c = 0 THEN cfg
        ELSE IF k = 0 THEN cfg
        ELSE IF IsAttachmentStyle(cmd, m) \/ ~cmd.api_call.has_args THEN cfg
        ELSE [cfg EXCEPT !.channels[c].attrs[k].api_call.args = TemplateAfter(cmd, m)]

\* the client delivers message m to a free task, which runs on_message up to
\* `await channel.send(reply)` or to its end
OnMessage(h, m, env, today) ==
    /\ inv[h].pc \in {"idle", "done"}
    /\ inv' = [inv EXCEPT ![h] = RunOnMessage(config, m, env, today,
                                              json_error_is_request_exception)]
    /\ config' = ConfigAfter(config, m)
    /\ UNCHANGED json_error_is_request_exception

\* a send that takes the reply from an attribute shared by the handlers:
\* the reply of the other handler when that one awaits its send too
SendDoneShared(h) ==
    /\ inv[h].pc = "sending"
    /\ LET o == CHOOSE o \in Handlers : o # h
           src == IF inv[o].pc = "sending" THEN inv[o] ELSE inv[h]
       IN  inv' = [inv EXCEPT ![h].replies = Append(@, [channel |-> src.channel,
                                                       content |-> src.reply]),
                             ![h].pc = "done"]
    /\ UNCHANGED <<config, json_error_is_request_exception>>
\* `await channel.send(reply)` completes; the handler returns
SendDone(h) ==
    /\ inv[h].pc = "sending"
    /\ inv' = [inv EXCEPT ![h].replies = Append(@, [channel |-> inv[h].channel,
                                                    content |-> inv[h].reply]),
                          ![h].pc = "done"]
    /\ UNCHANGED <<config, json_error_is_request_exception>>

\* the messages and outcomes of the runs with two handlers in flight
MessagesConc ==
    {Msg("user", 42, T_log_hi, <<>>), Msg("user", 42, T_l_x, <<>>),
     Msg("user", 42, T_row_date, Attachments(1)), Msg("user", 7, T_n, <<>>),
     Msg("user", 7, S_row, <<>>), Msg("user", 99, T_hi, <<>>),
     Msg(BotUser, 42, T_log_hi, <<>>)}
EnvsConc ==
    {Env("timeout", "none", JOther("null"), TRUE),
     Env("ok", "not_json", JOther("null"), TRUE),
     Env("ok", "json", JOther("list"), TRUE),
     Env("ok", "json", JObject(TRUE, JStr("OK"), TRUE, JStr("done"), TRUE, DataOf(1)), TRUE),
     Env("ok", "json", JObject(FALSE, JNull, FALSE, JNull, FALSE, DataNull), TRUE)}

\* one message at a time: the next one is delivered after the handler of
\* the previous one has returned
Receive ==
    \E m \in Messages, env \in Envs :
        \E today \in DatesFor(m) : OnMessage("h1", m, env, today)
Sent == SendDone("h1")

Next == Receive \/ Sent

Spec == Init /\ [][Next]_vars

\* messages delivered while another handler awaits its send
ReceiveConc ==
    \E h \in Handlers, m \in MessagesConc, env \in EnvsConc : OnMessage(h, m, env, S_today)
SentConc == \E h \in Handlers : SendDone(h)

NextConc == ReceiveConc \/ SentConc

SpecConc == Init /\ [][NextConc]_vars

-----------------------------------------------------------------------------
(* Vocabulary of the properties, stated on a task's message, the           *)
(* configuration and what the task did                                      *)

\* the tasks that have been given a message
Tasks == {inv[h] : h \in Handlers}
Handled == {t \in Tasks : t.msg # NoMsg}
Finished == {t \in Handled : t.pc = "done"}

\* p is a case-sensitive literal prefix of s at position 0
IsPrefixOf(p, s) == Len(p) <= Len(s) /\ \A i \in 1..Len(p) : s[i] = p[i]

\* the attribute is a command declaration
IsCommand(attr) == attr.name # "id" /\ attr.has_prefix

\* the command a task dispatched
CmdOf(t) == config.channels[t.chan].attrs[t.cmd]

\* the task resolved its message to a command
Resolved(t) == t.msg.author # BotUser /\ t.cmd # 0

\* the text after the matched prefix
Remainder(t) ==
    [i \in 1..(Len(t.msg.content) - Len(CmdOf(t).cmd_prefix)) |->
        t.msg.content[Len(CmdOf(t).cmd_prefix) + i]]

\* c is r without its leading and trailing whitespace
IsTrimOf(c, r) ==
    \E a, b \in 0..Len(r) :
        /\ a + b <= Len(r)
        /\ c = [i \in 1..(Len(r) - a - b) |-> r[a + i]]
        /\ \A i \in 1..a : r[i] \in Whitespace
        /\ \A i \in (Len(r) - b + 1)..Len(r) : r[i] \in Whitespace
        /\ c # <<>> => c[1] \notin Whitespace /\ c[Len(c)] \notin Whitespace

\* the outbound call met a transport fault
TransportFault(env) == env.http \in {"connection_error", "timeout"}
\* the response body is JSON and an object
IsObject(env) == env.http = "ok" /\ env.parse = "json" /\ env.body.type = "object"
\* the response has the shape the API promises
WellFormed(env) ==
    /\ IsObject(env)
    /\ env.write_ok
    /\ env.body.has_data => env.body.data.t \in {"map", "null"}

Details == {Detail(e) : e \in {"ConnectionError", "Timeout", "JSONDecodeError",
                               "AttributeError", "OSError", "KeyError", "TypeError"}}
\* the reply is the failure line of the given label
HasLabel(content, label) == \E d \in Details : content = CrossMark \o label \o d

-----------------------------------------------------------------------------
(* C1 *)

\* C1: for every message of another author that resolves to a command and
\* every outcome of the outbound call (the diagnostic write succeeding), the
\* handler sends exactly one reply, to the channel of the message, and no
\* exception leaves on_message.
C1_OneReplyNoException ==
    \A t \in Finished :
        Resolved(t) /\ t.posts # <<>> /\ t.env.write_ok =>
            /\ Len(t.replies) = 1
            /\ t.replies[1].channel = t.msg.channel
            /\ t.error = "none"

-----------------------------------------------------------------------------
(* C2 *)

\* C2: a message whose author is the bot causes no outbound call and no
\* reply, whatever its channel, text and attachments.
C2_SelfMessageSilent ==
    \A t \in Handled :
        t.msg.author = BotUser =>
            /\ t.posts = <<>>
            /\ t.replies = <<>>
            /\ t.pc = "done"
            /\ t.reply = ""

\* the bot's own message, in a configured channel, starting with a
\* configured prefix, has been handled
C2_Witness ==
    \E t \in Finished :
        /\ t.msg.author = BotUser
        /\ t.msg.channel = 42
        /\ IsPrefixOf(S_log, t.msg.content)

-----------------------------------------------------------------------------
(* C3 *)

\* no configured channel has the message's channel id
NoChannelFor(m) ==
    \A i \in 1..Len(config.channels) : ChanId(config.channels[i]) # m.channel
\* the text starts with no command prefix of channel i
NoPrefixIn(i, m) ==
    \A k \in 1..Len(config.channels[i].attrs) :
        IsCommand(config.channels[i].attrs[k]) =>
            ~IsPrefixOf(config.channels[i].attrs[k].cmd_prefix, m.content)

\* what a task that did nothing looks like; it depends on the message only
SilentOutcome(t) ==
    /\ t.pc = "done"
    /\ t.posts = <<>>
    /\ t.replies = <<>>
    /\ t.reply = ""
    /\ t.error = "none"
    /\ t.cmd = 0
    /\ t.style = "none"
    /\ t.args = <<>>
    /\ t.env = NoEnv

\* C3: a message in a channel that is not configured, or whose text starts
\* with none of the matched channel's prefixes, is a silent no-op: no
\* outbound call, no reply, no error, every time it is handled.
C3_UnmatchedSilent ==
    \A t \in Handled :
        \/ NoChannelFor(t.msg)
        \/ \E i \in 1..Len(config.channels) :
              /\ ChanId(config.channels[i]) = t.msg.channel
              /\ \A j \in 1..(i - 1) : ChanId(config.channels[j]) # t.msg.channel
              /\ NoPrefixIn(i, t.msg)
        => SilentOutcome(t)

\* a message of another author in a channel that is not configured has been
\* handled, and so has one in a configured channel that matches no prefix
C3_WitnessNoChannel ==
    \E t \in Finished : t.msg.author # BotUser /\ NoChannelFor(t.msg)
C3_Witness ==
    \E t \in Finished :
        /\ t.msg.author # BotUser
        /\ t.chan # 0
        /\ NoPrefixIn(t.chan, t.msg)
        /\ t.msg.content = T_sp_log

-----------------------------------------------------------------------------
(* C4 *)

\* C4: the command dispatched is the first declaration of the matched
\* channel, the id skipped, whose prefix is a case-sensitive literal prefix
\* of the text; one command is dispatched even when several prefixes match.
C4_FirstDeclaredMatch ==
    \A t \in Handled :
        Resolved(t) =>
            /\ IsCommand(CmdOf(t))
            /\ IsPrefixOf(CmdOf(t).cmd_prefix, t.msg.content)
            /\ \A j \in 1..(t.cmd - 1) :
                  LET a == config.channels[t.chan].attrs[j]
                  IN  ~(IsCommand(a) /\ IsPrefixOf(a.cmd_prefix, t.msg.content))
            /\ Len(t.posts) <= 1
            /\ t.posts # <<>> => t.posts[1].url = CmdOf(t).api_call.url
            /\ (config = Config1 /\ t.msg.channel = 42 /\ t.msg.content = T_log_hi)
                  => CmdOf(t).name = "log"

\* "!l" is declared before "!log", the text starts with both, and the
\* command of "!l" has been dispatched and has posted
C4_Witness ==
    \E t \in Finished :
        /\ Resolved(t)
        /\ t.msg.content = T_log_hi
        /\ CmdOf(t).cmd_prefix = S_l
        /\ \E j \in (t.cmd + 1)..Len(config.channels[t.chan].attrs) :
              config.channels[t.chan].attrs[j].cmd_prefix = S_log
        /\ Len(t.posts) = 1

-----------------------------------------------------------------------------
(* C5 *)

\* C5: every message of another author that resolves to a command ends with
\* one outbound POST and one reply, for every configuration, also when the
\* api_call has no headers or no args (the response, when a call is made,
\* being well-formed).
C5_ResolvedPostsAndReplies ==
    \A t \in Finished :
        Resolved(t) /\ (t.posts # <<>> => WellFormed(t.env)) =>
            /\ Len(t.posts) = 1
            /\ Len(t.replies) = 1
            /\ t.error = "none"

-----------------------------------------------------------------------------
(* C6 *)

\* C6: each failed outbound call is reported under one category: a
\* transport fault as "Network error calling API", a body that is no JSON
\* or no JSON object as "Invalid response from API", a data field that is
\* no mapping as "Error processing API response".
C6_FailureCategories ==
    \A t \in Finished :
        t.posts # <<>> /\ t.env.write_ok =>
            /\ TransportFault(t.env) =>
                  /\ Len(t.replies) = 1
                  /\ HasLabel(t.replies[1].content, " Network error calling API: ")
            /\ (t.env.http = "ok" /\ ~IsObject(t.env)) =>
                  /\ Len(t.replies) = 1
                  /\ HasLabel(t.replies[1].content, " Invalid response from API: ")
            /\ (IsObject(t.env) /\ t.env.body.has_data
                  /\ t.env.body.data.t \notin {"map", "null"}) =>
                  /\ Len(t.replies) = 1
                  /\ HasLabel(t.replies[1].content, " Error processing API response: ")

-----------------------------------------------------------------------------
(* C7 *)

C7_WitnessAttachment ==
    \E t \in Finished : Resolved(t) /\ t.style = "attachment" /\ Len(t.replies) = 1
-----------------------------------------------------------------------------
(* C8 *)

\* the positions of the template whose value is the empty string
EmptySlots(args) == {i \in 1..Len(args) : Len(args[i][2]) = 0}

\* C8: the payload of a text-style command has the keys of the args
\* template; the one entry whose template value is the empty string carries
\* the text after the prefix, trimmed; every other entry is unchanged; without
\* an empty entry the payload is the template.
C8_TextPayload ==
    \A t \in Handled :
        (Resolved(t) /\ t.style = "text" /\ t.posts # <<>>) =>
            LET tpl == CmdOf(t).api_call.args
                json == t.posts[1].json
            IN  /\ Len(json) = Len(tpl)
                /\ \A i \in 1..Len(tpl) : json[i][1] = tpl[i][1]
                /\ \A i \in 1..Len(tpl) : i \notin EmptySlots(tpl) => json[i] = tpl[i]
                /\ Cardinality(EmptySlots(tpl)) = 1 =>
                      \A i \in EmptySlots(tpl) : IsTrimOf(json[i][2], Remainder(t))
                /\ EmptySlots(tpl) = {} => json = tpl
                /\ (tpl = << <<"user", <<>> >>, <<"note", S_fixed>> >>
                      /\ t.msg.content = T_log_hi)
                      => json = << <<"user", <<"h", "i">> >>, <<"note", S_fixed>> >>

\* "!log  hi " has been posted through the template {user: "", note: "fix"}
C8_Witness ==
    \E t \in Finished :
        /\ Resolved(t)
        /\ t.style = "text"
        /\ t.msg.content = T_log_hi
        /\ CmdOf(t).api_call.args = << <<"user", <<>> >>, <<"note", S_fixed>> >>
        /\ Len(t.posts) = 1
\* a template without empty entry has been posted: the text is discarded
C8_WitnessNoSlot ==
    \E t \in Finished :
        /\ Resolved(t)
        /\ t.style = "text"
        /\ Len(t.posts) = 1
        /\ EmptySlots(CmdOf(t).api_call.args) = {}
        /\ Remainder(t) # <<>>

-----------------------------------------------------------------------------
(* C9 *)

\* C9 as stated: the POST uses the timeout 120 when the command has headers
\* configured and 10 otherwise, and attaches the configured headers exactly
\* when they are not empty.
C9_TimeoutByConfiguredHeaders ==
    \A t \in Handled :
        (Resolved(t) /\ t.posts # <<>>) =>
            /\ CmdOf(t).api_call.has_headers => t.posts[1].timeout = 120
            /\ ~CmdOf(t).api_call.has_headers => t.posts[1].timeout = 10
            /\ t.posts[1].with_headers <=> Len(Headers(CmdOf(t))) > 0

\* C9 amended: the POST uses the timeout 120 when the command's configured
\* headers are not empty and 10 otherwise (no headers configured, or headers
\* configured as an empty mapping); the configured headers are attached
\* exactly when they are not empty.
C9_TimeoutByNonEmptyHeaders ==
    \A t \in Handled :
        (Resolved(t) /\ t.posts # <<>>) =>
            LET api == CmdOf(t).api_call
                nonempty == api.has_headers /\ Len(api.headers) > 0
            IN  /\ nonempty => t.posts[1].timeout = 120
                /\ ~nonempty => t.posts[1].timeout = 10
                /\ t.posts[1].with_headers <=> nonempty
                /\ nonempty => t.posts[1].headers = api.headers

\* a command whose headers are configured as an empty mapping has posted
C9_Witness ==
    \E t \in Finished :
        /\ Resolved(t)
        /\ Len(t.posts) = 1
        /\ CmdOf(t).api_call.has_headers
        /\ CmdOf(t).api_call.headers = <<>>
        /\ t.posts[1].timeout = 10
\* a command with headers has posted
C9_WitnessHeaders ==
    \E t \in Finished :
        Resolved(t) /\ Len(t.posts) = 1 /\ t.posts[1].with_headers /\ t.posts[1].timeout = 120

-----------------------------------------------------------------------------
(* C10 *)

\* the first n data lines, each preceded by a newline
RECURSIVE DataLines(_, _)
DataLines(entries, n) ==
    IF n = 0 THEN ""
    ELSE DataLines(entries, n - 1)
         \o "\n" \o "- **" \o entries[n][1] \o ":** "
         \o (IF entries[n][2].t = "null" THEN "None" ELSE entries[n][2].s)

\* the text of a JSON value
TextOf(v) == IF v.t = "null" THEN "None" ELSE v.s

\* C10: for a JSON-object response the reply is "**{status}:** {message}",
\* status defaulting to "Error" and message to "No message provided" when
\* absent, followed by one line "- **{key}:** {value}" per data entry in the
\* mapping's order, each preceded by a newline, only when data is not empty;
\* the reply is never the empty string.
C10_SuccessReply ==
    \A t \in Finished :
        (t.posts # <<>> /\ IsObject(t.env) /\ t.replies # <<>>) =>
            LET b == t.env.body
                status == IF b.has_status THEN TextOf(b.status) ELSE "Error"
                message == IF b.has_message THEN TextOf(b.message) ELSE "No message provided"
                head == "**" \o status \o ":** " \o message
                lines == IF b.has_data /\ b.data.t = "map"
                         THEN DataLines(b.data.entries, Len(b.data.entries)) ELSE ""
            IN  /\ Len(t.replies) = 1
                /\ t.replies[1].content = head \o lines
                /\ t.replies[1].content # ""
                /\ (b.has_status /\ b.has_message /\ b.has_data /\ b.data = DataOf(2)
                      /\ b.status = JStr("OK") /\ b.message = JStr("done"))
                      => t.replies[1].content = "**OK:** done\n- **a:** 1\n- **b:** 2"

\* the reply to {status: "OK", message: "done", data: {a: 1, b: 2}} has been
\* sent
C10_Witness ==
    \E t \in Finished :
        /\ IsObject(t.env)
        /\ t.env.body.has_data
        /\ t.env.body.data = DataOf(2)
        /\ Len(t.replies) = 1
\* the reply to an object without status, message and data has been sent
C10_WitnessDefaults ==
    \E t \in Finished :
        /\ IsObject(t.env)
        /\ ~t.env.body.has_status
        /\ ~t.env.body.has_message
        /\ Len(t.replies) = 1

-----------------------------------------------------------------------------
(* C11 *)

\* the outbound call of the task failed: a transport fault, a body that is
\* no JSON object, a data field that is no mapping
CallFailed(t) ==
    /\ t.posts # <<>>
    /\ \/ TransportFault(t.env)
       \/ ~IsObject(t.env)
       \/ t.env.body.has_data /\ t.env.body.data.t \notin {"map", "null"}

\* C11: handling one message issues at most one outbound POST; after a
\* failure of the call, reported or not, the handler has posted once and
\* posts no more for that message.
C11_AtMostOnePost ==
    \A t \in Tasks :
        /\ Len(t.posts) <= 1
        /\ CallFailed(t) => Len(t.posts) = 1
        /\ (t.error # "none" \/ t.reply # "") => t.pc \in {"sending", "done"}

\* a call has failed with a timeout, the failure has been reported and the
\* handler has returned after one POST
C11_Witness ==
    \E t \in Finished :
        /\ t.env.http = "timeout"
        /\ Len(t.posts) = 1
        /\ Len(t.replies) = 1
        /\ HasLabel(t.replies[1].content, " Network error calling API: ")

-----------------------------------------------------------------------------
(* C12 *)

\* C12: no step changes the configuration tree, so the payload built for a
\* message does not depend on the messages handled before it; the empty
\* placeholder of an args template is still empty after a text command.
C12_ConfigUnchanged == [][config' = config]_vars

\* a text command has posted a text through the placeholder of its template,
\* and the placeholder of the template is empty
C12_Witness ==
    \E t \in Finished :
        /\ Resolved(t)
        /\ t.style = "text"
        /\ Len(t.posts) = 1
        /\ Remainder(t) # <<>>
        /\ \E i \in 1..Len(t.posts[1].json) :
              /\ t.posts[1].json[i][2] = <<"h", "i">>
              /\ CmdOf(t).api_call.args[i][2] = <<>>

-----------------------------------------------------------------------------
(* C13 *)

\* d is made of four digits, a hyphen, two digits, a hyphen and two digits
IsDateShaped(d) ==
    /\ Len(d) = 10
    /\ \A k \in {1, 2, 3, 4, 6, 7, 9, 10} : d[k] \in Digits
    /\ d[5] = "-"
    /\ d[8] = "-"

\* the substring of s of length 10 that starts at position i
Ten(s, i) == [k \in 1..10 |-> s[i + k - 1]]

\* the positions of s at which a date-shaped substring starts
DatePositions(s) == {i \in 1..(Len(s) - 9) : IsDateShaped(Ten(s, i))}

\* C13: the workout_date of an attachment-style command is the first
\* date-shaped substring of the text, verbatim, whether or not it is a
\* calendar date; without such a substring it is the current local date.
C13_WorkoutDate ==
    \A t \in Handled :
        (Resolved(t) /\ t.style = "attachment") =>
            LET s == t.msg.content
                d == t.posts[1].json[2][2]
            IN  /\ t.posts[1].json[2][1] = "workout_date"
                /\ DatePositions(s) # {} =>
                      \E i \in DatePositions(s) :
                          /\ \A j \in DatePositions(s) : i <= j
                          /\ d = Ten(s, i)
                /\ DatePositions(s) = {} => d \in Dates
                /\ s = T_row_date => d = S_date
                /\ s = T_row_dates => d = S_baddate

\* "!row 9999-99-99 2024-03-05" with an attachment has been posted
C13_Witness ==
    \E t \in Finished :
        /\ t.style = "attachment"
        /\ t.msg.content = T_row_dates
        /\ Len(t.posts) = 1
\* a text without date has been posted with the date of the clock
C13_WitnessToday ==
    \E t \in Finished :
        /\ t.style = "attachment"
        /\ DatePositions(t.msg.content) = {}
        /\ Len(t.posts) = 1
        /\ t.posts[1].json[2][2] = S_tomorrow

-----------------------------------------------------------------------------
(* C14 *)

\* the handler of the task is suspended: other handlers may run
Suspended(t) == t.pc = "sending"

\* the outbound call of the task is in flight: posted, no response yet
AtHttpCall(t) == t.posts # <<>> /\ t.env = NoEnv /\ t.reply = ""

\* the task is at the send of its reply: the call has returned, the reply
\* is formatted and not sent yet
AtSend(t) ==
    /\ Len(t.posts) = 1
    /\ t.env # NoEnv
    /\ t.reply # ""
    /\ t.replies = <<>>

\* C14 as stated: a handler is suspended only at the outbound HTTP call.
C14_SuspendsOnlyAtHttpCall ==
    \A t \in Tasks : Suspended(t) => AtHttpCall(t)

\* C14 amended: a handler is suspended only at the send of its reply.  The
\* outbound HTTP call is a blocking call: no handler is ever suspended, and
\* none can run, while a call is in flight; resolving, building and
\* formatting contain no suspension point either.
C14_SuspendsOnlyAtSend ==
    \A t \in Tasks :
        /\ Suspended(t) => AtSend(t)
        /\ ~AtHttpCall(t)
        /\ ~Suspended(t) => t.pc \in {"idle", "done"}
        /\ (t.pc = "done" /\ t.reply # "") => Len(t.replies) = 1

\* two handlers are suspended at their sends at the same time: the second
\* message has been handled up to its send while the first awaited its own
C14_Witness ==
    \E h, g \in Handlers :
        /\ h # g
        /\ Suspended(inv[h]) /\ Suspended(inv[g])
        /\ inv[h].msg # inv[g].msg

-----------------------------------------------------------------------------
(* C15 *)

\* what handling the message of the task alone produces
Alone(t) == RunOnMessage(config, t.msg, t.env, S_today, json_error_is_request_exception)

\* C15: under every interleaving, a reply is sent to the channel of the
\* message that triggered it, and its content is the one that handling that
\* message alone produces, from its own payload and its own response.
C15_RepliesIndependent ==
    \A t \in Handled :
        /\ Len(t.replies) <= 1
        /\ t.posts = Alone(t).posts
        /\ \A i \in 1..Len(t.replies) :
              /\ t.replies[i].channel = t.msg.channel
              /\ t.replies[i].content = Alone(t).reply
              /\ t.replies[i].content # ""

\* a handler has sent its reply while the other one, handling a message of
\* another channel with another reply, awaits its send
C15_Witness ==
    \E h, g \in Handlers :
        /\ inv[h].pc = "done"
        /\ Len(inv[h].replies) = 1
        /\ Suspended(inv[g])
        /\ inv[g].msg.channel # inv[h].msg.channel
        /\ inv[g].reply # inv[h].replies[1].content

-----------------------------------------------------------------------------
(* C16 *)

\* C16: writing the parsed response to api_response.json does not affect
\* the dispatch: when the write fails, the reply of a well-formed response
\* is sent all the same, and it is the reply sent when the write succeeds.
C16_WriteDoesNotAffectReply ==
    \A t \in Finished :
        (t.posts # <<>> /\ IsObject(t.env) /\ ~t.env.write_ok
            /\ (t.env.body.has_data => t.env.body.data.t \in {"map", "null"})) =>
            /\ Len(t.replies) = 1
            /\ t.replies[1].content = SuccessReply(t.env.body)
            /\ t.error = "none"

-----------------------------------------------------------------------------
(* C17 *)

\* channel i is the first configured channel with the id of the message
FirstChannelOf(i, m) ==
    /\ i \in 1..Len(config.channels)
    /\ ChanId(config.channels[i]) = m.channel
    /\ \A j \in 1..(i - 1) : ChanId(config.channels[j]) # m.channel

\* attribute k of channel i is a command with the empty prefix
EmptyPrefixAt(i, k) ==
    /\ k \in 1..Len(config.channels[i].attrs)
    /\ IsCommand(config.channels[i].attrs[k])
    /\ Len(config.channels[i].attrs[k].cmd_prefix) = 0

\* C17: a command with the empty prefix matches every message of another
\* author in its channel: the message is dispatched, to that command unless
\* an earlier declaration matches, and never to a command declared after
\* it; the configuration is in use like any other.
C17_EmptyPrefixMatchesAll ==
    \A t \in Handled :
        t.msg.author # BotUser =>
            \A i \in 1..Len(config.channels) :
                \A k \in 1..Len(config.channels[i].attrs) :
                    (FirstChannelOf(i, t.msg) /\ EmptyPrefixAt(i, k)) =>
                        /\ t.chan = i
                        /\ t.cmd \in 1..k
                        /\ (\A j \in 1..(k - 1) :
                              LET a == config.channels[i].attrs[j]
                              IN  ~(IsCommand(a) /\ IsPrefixOf(a.cmd_prefix, t.msg.content)))
                              => t.cmd = k
                        /\ Len(t.posts) = 1
                        /\ t.posts[1].url = CmdOf(t).api_call.url

\* "!log  hi " has been dispatched to the command with the empty prefix,
\* although the command of "!log" is declared after it
C17_Witness ==
    \E t \in Finished :
        /\ Resolved(t)
        /\ t.msg.content = T_log_hi
        /\ Len(CmdOf(t).cmd_prefix) = 0
        /\ \E j \in (t.cmd + 1)..Len(config.channels[t.chan].attrs) :
              config.channels[t.chan].attrs[j].cmd_prefix = S_log
        /\ Len(t.posts) = 1
        /\ Len(t.replies) = 1

-----------------------------------------------------------------------------
(* C18 *)

\* the urls of the commands of channel i
UrlsOf(i) ==
    {config.channels[i].attrs[k].api_call.url :
        k \in {k \in 1..Len(config.channels[i].attrs) :
                  IsCommand(config.channels[i].attrs[k])}}

\* C18: the channel of a message is the first configured channel, in
\* declaration order, with the message's channel id: only its commands are
\* considered, and a message that matches a prefix only of a later channel
\* with the same id is a silent no-op.
C18_FirstChannelWins ==
    \A t \in Handled :
        t.msg.author # BotUser =>
            \A i \in 1..Len(config.channels) :
                FirstChannelOf(i, t.msg) =>
                    /\ t.chan = i
                    /\ t.posts # <<>> => t.posts[1].url \in UrlsOf(i)
                    /\ NoPrefixIn(i, t.msg) => SilentOutcome(t)

\* a message that matches no prefix of the first channel with its id and a
\* prefix of a later channel with the same id has been handled
C18_Witness ==
    \E t \in Finished :
        /\ t.msg.author # BotUser
        /\ t.chan # 0
        /\ NoPrefixIn(t.chan, t.msg)
        /\ \E j \in (t.chan + 1)..Len(config.channels) :
              /\ ChanId(config.channels[j]) = t.msg.channel
              /\ ~NoPrefixIn(j, t.msg)

=============================================================================
